---- MODULE Spec2Model ----
(***************************************************************************)
(* The multi-provider first-aid guidance service of MEDASSIST2:            *)
(* generateFirstAidGuidanceUnified (server/services/ai-service.ts) and the *)
(* three provider adapters it sequences (gemini-service.ts,                *)
(* deepseek-service.ts, openai-service.ts).                                *)
(*                                                                         *)
(* One behaviour is one invocation of the orchestrator under a fixed       *)
(* process environment and a fixed behaviour of each remote provider.      *)
(* Every `await` of the orchestrator is a suspension point: the adapter's  *)
(* promise settles in one step (AdapterSettles) and the orchestrator       *)
(* resumes in another.                                                     *)
(***************************************************************************)
EXTENDS Integers, Sequences, FiniteSets, TLC

VARIABLES
    env,        \* process.env: the three API keys and PREFERRED_AI_API
    remote,     \* what each provider's endpoint answers during this invocation
    request,    \* the arguments generateFirstAidGuidanceUnified is called with
    pc,         \* where the orchestrator is suspended
    calls,      \* the adapter calls made so far, in order (provider names)
    args,       \* the arguments each adapter call received
    promise,    \* the promise returned by each adapter call
    errors,     \* the orchestrator's local `errors` array
    outcome,    \* the promise returned by generateFirstAidGuidanceUnified
    content,    \* the content handed to a text extractor
    extracted,  \* the extractor that ran on `content` and what it returned
    files,      \* the paths that exist in the file system
    req,        \* the HTTP request of POST /first-aid/assess
    hpc,        \* where the route handler is
    storage,    \* the storage layer: patients, medical records, guidance
    res,        \* the HTTP response sent
    running,    \* the invocation whose locals the variables above hold
    frames,     \* the locals of each invocation when it last was suspended
    alone,      \* what each invocation did when it ran on its own
    adapter,    \* the locals of one adapter call that is followed step by step
    hook,       \* the state of the useAudioRecording hook and the last submit
    recorders   \* the MediaRecorder objects startRecording has created

\* The state of one invocation of the orchestrator.
invocation == <<env, remote, request, pc, calls, args, promise, errors, outcome>>

\* The state of the text extractors.
extraction == <<content, extracted>>

\* The state of the route handler of POST /first-aid/assess.
route == <<req, hpc, storage, res>>

\* What no step of the orchestrator and no adapter assigns.
\* Which of two invocations runs, and the suspended one.
schedule == <<running, frames, alone>>

\* The state of the recording hook in the browser.
client == <<hook, recorders>>

outside == <<request, extraction, route, schedule, adapter, client>>

vars == <<invocation, extraction, files, route, schedule, adapter, client>>

-----------------------------------------------------------------------------
(* Bounds *)

\* Longest steps / warnings list a provider's JSON answer carries.
MaxItems == 1

\* Longest text, in atoms, of the texts every atom sequence is taken of.
MaxTextLen == 3

\* Most images a request uploads.
MaxImages == 1

\* Most words of a severity line.
MaxSeverityWords == 3

\* Most recordings started in one behaviour of the recording hook.
MaxRecordings == 3

-----------------------------------------------------------------------------
(* JavaScript values *)

Undefined == [type |-> "undefined"]
Str(s) == [type |-> "string", s |-> s]
Arr(items) == [type |-> "array", items |-> items]
Obj(level, description) ==
    [type |-> "object", level |-> level, description |-> description]

\* A JavaScript string held as its atoms (see "Provider text").
Text(tokens) == [type |-> "text", tokens |-> tokens]

\* JavaScript truthiness of the values used here: undefined and "" are falsy,
\* every array and object is truthy.
Truthy(v) == v # Undefined /\ v # Str("") /\ v # Text(<<>>)

\* a || b
Or(a, b) == IF Truthy(a) THEN a ELSE b

\* String.prototype.toLowerCase on the strings PREFERRED_AI_API takes and on
\* the atoms of a provider's text.
ToLowerCase(s) ==
    CASE s = "OpenAI" -> "openai"
      [] s = "Assessment" -> "assessment"
      [] s = "Steps" -> "steps"
      [] s = "Warnings" -> "warnings"
      [] s = "Severity" -> "severity"
      [] s = "Minor" -> "minor"
      [] OTHER -> s

\* Error.message texts are sequences of words, punctuation apart.
Contains(message, word) == \E i \in 1..Len(message) : message[i] = word

\* `part` occurs in `message` as a contiguous run of words.
Occurs(part, message) ==
    \E k \in 0..(Len(message) - Len(part)) :
        \A i \in 1..Len(part) : message[k + i] = part[i]

-----------------------------------------------------------------------------
(* The environment *)

Providers == {"Gemini", "DeepSeek", "OpenAI"}
None == "none"

KeyValues == {Undefined, Str(""), Str("key")}

PreferredValues ==
    {Undefined, Str(""), Str("gemini"), Str("deepseek"), Str("openai"),
     Str("OpenAI"), Str("claude")}

Environments ==
    [GEMINI_API_KEY : KeyValues, DEEPSEEK_API_KEY : KeyValues,
     OPENAI_API_KEY : KeyValues, PREFERRED_AI_API : PreferredValues]

\* The API-key environment value of a provider.
ApiKey(e, p) ==
    CASE p = "Gemini" -> e.GEMINI_API_KEY
      [] p = "DeepSeek" -> e.DEEPSEEK_API_KEY
      [] p = "OpenAI" -> e.OPENAI_API_KEY

Configured(e, p) == Truthy(ApiKey(e, p))

\* process.env.PREFERRED_AI_API?.toLowerCase()
preferredApi(e) ==
    IF e.PREFERRED_AI_API = Undefined
        THEN Undefined
        ELSE Str(ToLowerCase(e.PREFERRED_AI_API.s))

-----------------------------------------------------------------------------
(* What a provider's endpoint answers *)

Statuses == {401, 403, 429, 500}

HttpError(status) == [kind |-> "http_error", status |-> status]
NetworkError == [kind |-> "network"]
EmptyContent == [kind |-> "empty"]
JsonContent == [kind |-> "json"]
TextContent == [kind |-> "text"]

\* The answers considered: a failed request, an answer without content, an
\* answer whose content is a well-formed JSON object, and an answer whose
\* content is text JSON.parse rejects.
Responses ==
    {HttpError(s) : s \in Statuses}
        \cup {NetworkError, EmptyContent, JsonContent, TextContent}

\* A request sent without an API key is refused by the provider.
ResponsesFor(e, p) ==
    IF Configured(e, p) THEN Responses ELSE {HttpError(401), HttpError(403)}

Levels == {"minor", "requires_attention", "emergency"}

Lists == UNION {[1..n -> {Str("item")}] : n \in 0..MaxItems}

\* The well-formed JSON objects a provider may answer with: any subset of
\* the four fields, and any severity level.
JsonBodies ==
    [assessment : {Undefined, Str(""), Str("Minor cut.")},
     steps : {Undefined} \cup {Arr(l) : l \in Lists},
     warnings : {Undefined} \cup {Arr(l) : l \in Lists},
     severity : {Undefined} \cup
                {Obj(Str(l), Str("why")) : l \in Levels \cup {"critical"}}]

\* The error the HTTP client throws for a failed request.
TransportError(resp) ==
    IF resp.kind = "http_error"
        THEN [message |-> <<"Request", "failed", "with", "status", "code",
                            ToString(resp.status)>>,
              response |-> [status |-> resp.status]]
        ELSE [message |-> <<"Network", "Error">>, response |-> Undefined]

-----------------------------------------------------------------------------
(* Promises *)

Pending == [state |-> "pending", value |-> Undefined, reason |-> Undefined]
Fulfilled(v) == [state |-> "fulfilled", value |-> v, reason |-> Undefined]
Rejected(e) == [state |-> "rejected", value |-> Undefined, reason |-> e]

\* new Error(message)
Error(message) == [message |-> message]

-----------------------------------------------------------------------------
(* Provider text *)

(***************************************************************************)
(* A provider's free-form text is a sequence of atoms: the characters ":", *)
(* " " and "\n" stand for themselves, every other atom is a run of         *)
(* characters holding none of them (a word, a list marker such as "1.").   *)
(* The regular expressions of the extractors are applied atom by atom,     *)
(* with JavaScript's leftmost match, greedy and lazy quantifiers and       *)
(* backtracking.                                                           *)
(***************************************************************************)

\* \s
IsSpace(t) == t \in {" ", "\n"}

\* [:\s]
IsSep(t) == t \in {":", " ", "\n"}

\* \d+\.
NumberMarks == {"1.", "2."}

\* \* and -
BulletMarks == {"*", "-"}

\* Atoms made only of characters of [0-9#\-*.\s].
IsListPrefix(t) == t \in NumberMarks \cup BulletMarks \cup {" ", "\n", ".", "#"}

LowerAll(s) == [i \in 1..Len(s) |-> ToLowerCase(s[i])]

\* The last position of the run of spaces that starts at p (p - 1 if none).
SpaceRunEnd(s, p) ==
    CHOOSE q \in (p - 1)..Len(s) :
        /\ \A j \in p..q : IsSpace(s[j])
        /\ q = Len(s) \/ ~IsSpace(s[q + 1])

\* The last position of the run of [:\s] that starts at p (p - 1 if none).
SepRunEnd(s, p) ==
    CHOOSE q \in (p - 1)..Len(s) :
        /\ \A j \in p..q : IsSep(s[j])
        /\ q = Len(s) \/ ~IsSep(s[q + 1])

\* The last position of the run of [^\n] that starts at p (p - 1 if none).
LineEnd(s, p) ==
    CHOOSE q \in (p - 1)..Len(s) :
        /\ \A j \in p..q : s[j] # "\n"
        /\ q = Len(s) \/ s[q + 1] = "\n"

Max(S) == CHOOSE x \in S : \A y \in S : y <= x
Min(S) == CHOOSE x \in S : \A y \in S : x <= y

\* String.prototype.trim
Trim(s) ==
    LET keep == {i \in 1..Len(s) : ~IsSpace(s[i])}
    IN  IF keep = {} THEN <<>> ELSE SubSeq(s, Min(keep), Max(keep))

\* The positions at which the word `label` stands, whatever its case.
At(s, label) == {i \in 1..Len(s) : ToLowerCase(s[i]) = label}

\* Where the group of LABEL[:\s]+([^\n]+) starts for the label at i, or 0:
\* the separators give back atoms until a character other than "\n" follows.
TailStart(s, i) ==
    LET k == SepRunEnd(s, i + 1)
        from == {j \in (i + 1)..k : j + 1 <= Len(s) /\ s[j + 1] # "\n"}
    IN  IF from = {} THEN 0 ELSE Max(from) + 1

\* The group of the leftmost match of /LABEL[:\s]+([^\n]+)/i, or <<>>.
LineAfter(s, label) ==
    LET at == {i \in At(s, label) : TailStart(s, i) # 0}
    IN  IF at = {} THEN <<>>
        ELSE LET g == TailStart(s, Min(at)) IN SubSeq(s, g, LineEnd(s, g))

\* Where the group of LABEL[:\s]+([\s\S]+?) starts for the label at i, or 0.
BlockStart(s, i) ==
    LET k == SepRunEnd(s, i + 1)
        from == {j \in (i + 1)..k : j + 1 <= Len(s)}
    IN  IF from = {} THEN 0 ELSE Max(from) + 1

\* The lookahead (?=warnings|$) or (?=\n\n|severity|$) holds after position e.
BlockStops(s, e, word, blankLine) ==
    \/ e = Len(s)
    \/ ToLowerCase(s[e + 1]) = word
    \/ blankLine /\ e + 2 <= Len(s) /\ s[e + 1] = "\n" /\ s[e + 2] = "\n"

\* The group of the leftmost match of /LABEL[:\s]+([\s\S]+?)(?=...)/i, or <<>>.
BlockAfter(s, label, word, blankLine) ==
    LET at == {i \in At(s, label) : BlockStart(s, i) # 0}
    IN  IF at = {} THEN <<>>
        ELSE LET g == BlockStart(s, Min(at))
                 e == Min({q \in g..Len(s) : BlockStops(s, q, word, blankLine)})
             IN  SubSeq(s, g, e)

\* s.split(/\n+/)
RECURSIVE SplitLines(_)
SplitLines(s) ==
    LET breaks == {i \in 1..Len(s) : s[i] = "\n"}
    IN  IF breaks = {} THEN <<s>>
        ELSE LET b == Min(breaks)
                 e == Max({q \in b..Len(s) : \A j \in b..q : s[j] = "\n"})
             IN  <<SubSeq(s, 1, b - 1)>> \o SplitLines(SubSeq(s, e + 1, Len(s)))

\* line.replace(/^[0-9#\-*.\s]+/, '').trim()
StripListPrefix(line) ==
    LET rest == {i \in 1..Len(line) : ~IsListPrefix(line[i])}
    IN  IF rest = {} THEN <<>> ELSE Trim(SubSeq(line, Min(rest), Len(line)))

\* .filter(Boolean) on strings
NonEmpty(list) == SelectSeq(list, LAMBDA x : x # <<>>)

\* The items the OpenAI extractor reads from the text of a section.
OpenAIItems(group) ==
    LET lines == SplitLines(Trim(group))
    IN  NonEmpty([i \in 1..Len(lines) |-> StripListPrefix(lines[i])])

Texts(list) == Arr([i \in 1..Len(list) |-> Text(list[i])])

\* String.prototype.includes for a phrase of whole atoms.
Includes(s, phrase) ==
    \E k \in 0..(Len(s) - Len(phrase)) :
        \A i \in 1..Len(phrase) : s[k + i] = phrase[i]

OpenAIDefaultSeverity ==
    Obj(Str("requires_attention"),
        Str("Unable to determine severity from the response. Seeking medical advice is recommended as a precaution."))

\* Mutant: the extractor looks for "emergency" before anything else.
OpenAISeverityEmergencyFirst(group) ==
    LET severityText == Trim(LowerAll(group))
    IN  IF Includes(severityText, <<"emergency">>)
            THEN Obj(Str("emergency"),
                     Str("This is a medical emergency requiring immediate professional medical care."))
        ELSE IF Includes(severityText, <<"minor">>)
            THEN Obj(Str("minor"),
                     Str("This condition can be safely treated at home with basic first aid."))
        ELSE OpenAIDefaultSeverity

\* The severity the OpenAI extractor reads from the text after the label.
OpenAISeverity(group) ==
    LET severityText == Trim(LowerAll(group))
    IN  IF Includes(severityText, <<"minor">>)
            THEN Obj(Str("minor"),
                     Str("This condition can be safely treated at home with basic first aid."))
        ELSE IF \/ Includes(severityText, <<"requires_attention">>)
                \/ Includes(severityText, <<"requires", " ", "attention">>)
                \/ Includes(severityText, <<"medical", " ", "attention">>)
            THEN Obj(Str("requires_attention"),
                     Str("This condition needs medical attention, but is not immediately life-threatening."))
        ELSE IF Includes(severityText, <<"emergency">>)
            THEN Obj(Str("emergency"),
                     Str("This is a medical emergency requiring immediate professional medical care."))
        ELSE OpenAIDefaultSeverity

\* The group of /severity[^:]*description[:\s]+([^\n]+)/i, or <<>>: the
\* leftmost "severity", then the last "description" no ":" separates from it.
OpenAISeverityDescription(s) ==
    LET ends(i) == {d \in (i + 1)..Len(s) :
                       /\ ToLowerCase(s[d]) = "description"
                       /\ \A x \in (i + 1)..(d - 1) : s[x] # ":"
                       /\ TailStart(s, d) # 0}
        at == {i \in At(s, "severity") : ends(i) # {}}
    IN  IF at = {} THEN <<>>
        ELSE LET g == TailStart(s, Max(ends(Min(at))))
             IN  SubSeq(s, g, LineEnd(s, g))

\* a || b on match groups, where no match is <<>>.
OrMatch(a, b) == IF a # <<>> THEN a ELSE b

\* extractStructuredDataFromText of openai-service.ts
OpenAIExtract(text) ==
    LET assessmentMatch ==
            OrMatch(LineAfter(text, "assessment"),
                    OrMatch(LineAfter(text, "situation"), LineAfter(text, "condition")))
        stepsMatch == BlockAfter(text, "steps", "warnings", FALSE)
        warningsMatch == BlockAfter(text, "warnings", "severity", TRUE)
        severityMatch == OrMatch(LineAfter(text, "severity"), LineAfter(text, "level"))
        severityDescMatch ==
            OrMatch(OpenAISeverityDescription(text), LineAfter(text, "description"))
        severity ==
            IF severityMatch # <<>> THEN OpenAISeverity(severityMatch)
            ELSE OpenAIDefaultSeverity
    IN  [assessment |->
             IF assessmentMatch # <<>> THEN Text(Trim(assessmentMatch))
             ELSE Str("Unable to parse response properly. Please try again."),
         steps |->
             IF stepsMatch # <<>> /\ OpenAIItems(stepsMatch) # <<>>
                 THEN Texts(OpenAIItems(stepsMatch))
                 ELSE Arr(<<>>),
         warnings |->
             IF warningsMatch # <<>> /\ OpenAIItems(warningsMatch) # <<>>
                 THEN Texts(OpenAIItems(warningsMatch))
                 ELSE Arr(<<Str("The system encountered an issue processing the response.")>>),
         severity |->
             IF severityDescMatch # <<>>
                 THEN Obj(severity.level, Text(Trim(severityDescMatch)))
                 ELSE severity]

\* The lookahead (?=steps:|warnings:|$) holds after position e, for the
\* labels of `stops`.
SectionStops(s, e, stops) ==
    \/ e = Len(s)
    \/ /\ e + 2 <= Len(s)
       /\ ToLowerCase(s[e + 1]) \in stops
       /\ s[e + 2] = ":"

\* Where the group of LABEL:?\s*(.*?) starts for the label at i.
SectionStart(s, i) ==
    LET c == IF i + 1 <= Len(s) /\ s[i + 1] = ":" THEN i + 1 ELSE i
    IN  SpaceRunEnd(s, c + 1) + 1

\* The ends the group (.*?)(?=...) may have for the label at i: "." does not
\* match "\n".
SectionEnds(s, i, stops) ==
    LET g == SectionStart(s, i)
    IN  {e \in (g - 1)..Len(s) :
            /\ \A j \in g..e : s[j] # "\n"
            /\ SectionStops(s, e, stops)}

\* The group of the leftmost match of /LABEL:?\s*(.*?)(?=...)/i; <<>> when
\* nothing matches or the group is empty.
SectionAfter(s, label, stops) ==
    LET at == {i \in At(s, label) : SectionEnds(s, i, stops) # {}}
    IN  IF at = {} THEN <<>>
        ELSE SubSeq(s, SectionStart(s, Min(at)), Min(SectionEnds(s, Min(at), stops)))

\* s.split(/\d+\.\s+/) and s.split(/\d+\.\s+|\*\s+|-\s+/): a marker followed
\* by spaces separates two items.
RECURSIVE SplitMarks(_, _)
SplitMarks(s, marks) ==
    LET at == {i \in 1..(Len(s) - 1) : s[i] \in marks /\ IsSpace(s[i + 1])}
    IN  IF at = {} THEN <<s>>
        ELSE LET b == Min(at)
             IN  <<SubSeq(s, 1, b - 1)>>
                     \o SplitMarks(SubSeq(s, SpaceRunEnd(s, b + 1) + 1, Len(s)), marks)

\* group.split(...).filter(Boolean).map(item => item.trim())
MarkedItems(group, marks) ==
    LET items == NonEmpty(SplitMarks(group, marks))
    IN  Texts([i \in 1..Len(items) |-> Trim(items[i])])

\* The atoms the texts are made of: the section labels, the separators, a
\* list marker, a word, and words the severity is read from.
TextAtoms ==
    {"assessment", "steps", "warnings", "severity", "level", "description",
     ":", " ", "\n", "1.", "cut", "minor", "emergency", "attention"}

\* An answer in the layout the prompt asks for, and one without any layout.
LabelledText ==
    <<"Assessment", ":", " ", "cut", "\n",
      "Steps", ":", " ", "1.", " ", "cut", " ", "2.", " ", "cut", "\n",
      "Warnings", ":", " ", "-", " ", "cut", "\n",
      "Severity", ":", " ", "minor">>

PlainText == <<"cut", " ", "cut", ".">>

SampleTexts == {LabelledText, PlainText}

\* Three labelled lines, the items of a list on one line.
ThreeLineText ==
    <<"assessment", ":", " ", "Minor", " ", "cut.", "\n",
      "steps", ":", " ", "1.", " ", "Clean", " ", "it.", " ",
                         "2.", " ", "Bandage", " ", "it.", "\n",
      "warnings", ":", " ", "1.", " ", "Watch", " ", "for", " ", "infection.">>

\* The words a severity is written with.
SeverityWords ==
    {"minor", "emergency", "attention", "requires", "medical", "requires_attention"}

\* The words of w, a space between two of them.
RECURSIVE Spaced(_)
Spaced(w) ==
    IF Len(w) <= 1 THEN w ELSE <<w[1], " ">> \o Spaced(Tail(w))

\* A severity line of up to MaxSeverityWords words.
SeverityTexts ==
    {<<"Severity", " ", "level", ":", " ">> \o Spaced(w) :
        w \in UNION {[1..n -> SeverityWords] : n \in 1..MaxSeverityWords}}

\* The texts an extractor is given: content that is not empty and is not
\* JSON.
ProviderTexts ==
    UNION {[1..n -> TextAtoms] : n \in 1..MaxTextLen}
        \cup SampleTexts \cup {ThreeLineText} \cup SeverityTexts

\* extractStructuredDataFromText of gemini-service.ts
GeminiExtract(text) ==
    LET assessmentMatch == SectionAfter(text, "assessment", {"steps", "warnings"})
        stepsMatch == SectionAfter(text, "steps", {"warnings"})
        warningsMatch == SectionAfter(text, "warnings", {})
    IN  [assessment |->
             IF assessmentMatch # <<>> THEN Text(Trim(assessmentMatch)) ELSE Str(""),
         steps |->
             IF stepsMatch # <<>> THEN MarkedItems(stepsMatch, NumberMarks)
             ELSE Arr(<<>>),
         warnings |->
             IF warningsMatch # <<>>
                 THEN MarkedItems(warningsMatch, NumberMarks \cup BulletMarks)
                 ELSE Arr(<<>>),
         severity |-> Undefined]

\* Where the group of WORD:?\s*"?([^"\n]+) starts for the word at d, or 0.
QuotedStart(s, d) ==
    LET colon == d + 1 <= Len(s) /\ s[d + 1] = ":"
        c == IF colon THEN d + 1 ELSE d
        from == {j \in c..SpaceRunEnd(s, c + 1) : j + 1 <= Len(s) /\ s[j + 1] # "\n"}
    IN  IF from # {} THEN Max(from) + 1
        ELSE IF colon THEN d + 1
        ELSE 0

\* The group of the leftmost match of /severity:?[^:]*WORD:?\s*"?([^"\n]+)"?/i,
\* or <<>>.
AfterSeverity(s, word) ==
    LET first(i) == IF i + 1 <= Len(s) /\ s[i + 1] = ":" THEN i + 2 ELSE i + 1
        ends(i) == {d \in first(i)..Len(s) :
                       /\ ToLowerCase(s[d]) = word
                       /\ \A x \in first(i)..(d - 1) : s[x] # ":"
                       /\ QuotedStart(s, d) # 0}
        at == {i \in At(s, "severity") : ends(i) # {}}
    IN  IF at = {} THEN <<>>
        ELSE LET g == QuotedStart(s, Max(ends(Min(at))))
             IN  SubSeq(s, g, LineEnd(s, g))

\* The severity the DeepSeek extractor reads from the text after the label;
\* the description already in the result is kept.
DeepSeekSeverity(group, severity) ==
    LET levelText == Trim(LowerAll(group))
    IN  IF Includes(levelText, <<"minor">>)
            THEN Obj(Str("minor"),
                     Or(severity.description,
                        Str("This condition can be safely treated at home with basic first aid.")))
        ELSE IF \/ Includes(levelText, <<"requires_attention">>)
                \/ Includes(levelText, <<"requires", " ", "attention">>)
                \/ Includes(levelText, <<"attention">>)
            THEN Obj(Str("requires_attention"),
                     Or(severity.description,
                        Str("This condition needs medical attention, but is not immediately life-threatening.")))
        ELSE IF Includes(levelText, <<"emergency">>)
            THEN Obj(Str("emergency"),
                     Or(severity.description,
                        Str("This is a medical emergency requiring immediate professional medical care.")))
        ELSE severity

\* extractStructuredDataFromText of deepseek-service.ts
DeepSeekExtract(text) ==
    LET assessmentMatch == SectionAfter(text, "assessment", {"steps", "warnings"})
        stepsMatch == SectionAfter(text, "steps", {"warnings"})
        warningsMatch == SectionAfter(text, "warnings", {"severity"})
        severityLevelMatch == AfterSeverity(text, "level")
        severityDescMatch == AfterSeverity(text, "description")
        severity ==
            IF severityLevelMatch # <<>>
                THEN DeepSeekSeverity(severityLevelMatch, OpenAIDefaultSeverity)
                ELSE OpenAIDefaultSeverity
    IN  [assessment |->
             IF assessmentMatch # <<>> THEN Text(Trim(assessmentMatch)) ELSE Str(""),
         steps |->
             IF stepsMatch # <<>> THEN MarkedItems(stepsMatch, NumberMarks)
             ELSE Arr(<<>>),
         warnings |->
             IF warningsMatch # <<>>
                 THEN MarkedItems(warningsMatch, NumberMarks \cup BulletMarks)
                 ELSE Arr(<<>>),
         severity |->
             IF severityDescMatch # <<>>
                 THEN Obj(severity.level, Text(Trim(severityDescMatch)))
                 ELSE severity]

\* The extractor each adapter falls back to.
extractStructuredDataFromText(p, text) ==
    CASE p = "Gemini" -> GeminiExtract(text)
      [] p = "DeepSeek" -> DeepSeekExtract(text)
      [] p = "OpenAI" -> OpenAIExtract(text)

-----------------------------------------------------------------------------
(* The provider adapters *)

UnknownError == <<"Unknown", "error">>

\* error.message || "Unknown error"
MessageOf(error) == IF error.message = <<>> THEN UnknownError ELSE error.message

DefaultAssessment ==
    Str("Unable to provide assessment with given information.")

DefaultSeverity ==
    Obj(Str("requires_attention"),
        Str("Unable to determine severity level from provided information. Seeking medical advice is recommended as a precaution."))

ServiceUnavailableMessage(name) ==
    <<name, "API", "service", "unavailable", ".", "Please", "try", "again",
      "later", "or", "contact", "support", "to", "update", "API",
      "credentials", ".">>

FailedToGenerate(error) ==
    <<"Failed", "to", "generate", "first", "aid", "guidance", ":">>
        \o MessageOf(error)

NoContentError ==
    [message |-> <<"No", "content", "in", "the", "response">>,
     response |-> Undefined]

EmptyResponseError ==
    [message |-> <<"Empty", "response", "from", "OpenAI">>,
     response |-> Undefined]

\* error?.response?.status === 429 || error?.response?.status === 401
IsAuthOrRateLimit(error) ==
    /\ error.response # Undefined
    /\ error.response.status \in {429, 401}

\* The catch block of generateFirstAidGuidanceWithGemini.
GeminiCatch(error) ==
    IF IsAuthOrRateLimit(error)
        THEN Rejected(Error(ServiceUnavailableMessage("Gemini")))
        ELSE Rejected(Error(FailedToGenerate(error)))

\* The catch block of generateFirstAidGuidanceWithDeepSeek.
DeepSeekCatch(error) ==
    IF IsAuthOrRateLimit(error)
        THEN Rejected(Error(ServiceUnavailableMessage("DeepSeek")))
        ELSE Rejected(Error(FailedToGenerate(error)))

\* The catch block of generateFirstAidGuidanceWithOpenAI.
OpenAICatch(error) ==
    Rejected(Error(<<"OpenAI", "Service", "Error", ":">> \o MessageOf(error)))

\* What the Gemini adapter builds from the parsed JSON answer.
GeminiParsed(parsedResponse) ==
    [assessment |-> Or(parsedResponse.assessment, DefaultAssessment),
     steps |-> Or(parsedResponse.steps, Arr(<<>>)),
     warnings |-> Or(parsedResponse.warnings, Arr(<<>>)),
     severity |-> Undefined]

\* What the DeepSeek adapter builds from the parsed JSON answer.
DeepSeekParsed(parsedResponse) ==
    [assessment |-> Or(parsedResponse.assessment, DefaultAssessment),
     steps |-> Or(parsedResponse.steps, Arr(<<>>)),
     warnings |-> Or(parsedResponse.warnings, Arr(<<>>)),
     severity |-> Or(parsedResponse.severity, DefaultSeverity)]

\* JSON.parse(responseContent) as AIAssessmentResult: the cast changes nothing.
OpenAIParsed(parsedResponse) == parsedResponse

\* The content an answer may carry.
ContentsFor(resp) == IF resp.kind = "text" THEN SampleTexts ELSE JsonBodies

\* Mutant: the adapter lets the error of JSON.parse escape.
ParseErrorThrown(p, text) ==
    Rejected(Error(<<"Unexpected", "token", "in", "JSON">>))

\* catch (parseError): the adapter returns what its extractor reads from the
\* content.
ParseErrorCaught(p, text) == Fulfilled(extractStructuredDataFromText(p, text))

\* The promise generateFirstAidGuidanceWithGemini returns when the endpoint
\* answers `resp`, with content `body`.
generateFirstAidGuidanceWithGemini(resp, body) ==
    CASE resp.kind \in {"http_error", "network"} -> GeminiCatch(TransportError(resp))
      [] resp.kind = "empty" -> GeminiCatch(NoContentError)
      [] resp.kind = "json" -> Fulfilled(GeminiParsed(body))
      [] resp.kind = "text" -> ParseErrorCaught("Gemini", body)

generateFirstAidGuidanceWithDeepSeek(resp, body) ==
    CASE resp.kind \in {"http_error", "network"} -> DeepSeekCatch(TransportError(resp))
      [] resp.kind = "empty" -> DeepSeekCatch(NoContentError)
      [] resp.kind = "json" -> Fulfilled(DeepSeekParsed(body))
      [] resp.kind = "text" -> ParseErrorCaught("DeepSeek", body)

generateFirstAidGuidanceWithOpenAI(resp, body) ==
    CASE resp.kind \in {"http_error", "network"} -> OpenAICatch(TransportError(resp))
      [] resp.kind = "empty" -> OpenAICatch(EmptyResponseError)
      [] resp.kind = "json" -> Fulfilled(OpenAIParsed(body))
      [] resp.kind = "text" -> ParseErrorCaught("OpenAI", body)

Adapter(p, resp, body) ==
    CASE p = "Gemini" -> generateFirstAidGuidanceWithGemini(resp, body)
      [] p = "DeepSeek" -> generateFirstAidGuidanceWithDeepSeek(resp, body)
      [] p = "OpenAI" -> generateFirstAidGuidanceWithOpenAI(resp, body)

-----------------------------------------------------------------------------
(* The orchestrator: generateFirstAidGuidanceUnified *)

\* The adapter the primary attempt calls, or None when the function reaches
\* its `return Promise.reject(...)`.
PrimaryChoice(e) ==
    LET p == preferredApi(e)
        gemini == Truthy(e.GEMINI_API_KEY)
        deepseek == Truthy(e.DEEPSEEK_API_KEY)
        openai == Truthy(e.OPENAI_API_KEY)
    IN  IF gemini /\ (p = Str("gemini") \/ ~Truthy(p)) THEN "Gemini"
        ELSE IF p = Str("deepseek") \/ (~gemini /\ deepseek) THEN "DeepSeek"
        ELSE IF p = Str("openai") \/ (~gemini /\ ~deepseek /\ openai) THEN "OpenAI"
        ELSE IF gemini THEN "Gemini"
        ELSE None

\* The adapter the first fallback calls, or None when it throws.
FirstFallbackChoice(e) ==
    LET p == preferredApi(e)
    IN  IF p # Str("gemini") /\ Truthy(e.GEMINI_API_KEY) THEN "Gemini"
        ELSE IF p # Str("deepseek") /\ Truthy(e.DEEPSEEK_API_KEY) THEN "DeepSeek"
        ELSE IF p # Str("openai") /\ Truthy(e.OPENAI_API_KEY) THEN "OpenAI"
        ELSE None

\* The adapter the second fallback calls, or None when it throws.
SecondFallbackChoice(e) ==
    LET p == preferredApi(e)
    IN  IF p # Str("openai") /\ p # Str("gemini") /\ Truthy(e.OPENAI_API_KEY)
            THEN "OpenAI"
        ELSE IF p # Str("deepseek") /\ p # Str("gemini") /\ Truthy(e.DEEPSEEK_API_KEY)
            THEN "DeepSeek"
        ELSE IF p # Str("openai") /\ p # Str("deepseek") /\ Truthy(e.GEMINI_API_KEY)
            THEN "Gemini"
        ELSE None

NoServiceMessage ==
    <<"No", "AI", "service", "is", "available", ".", "Please", "check",
      "your", "API", "credentials", ".">>

FirstFallbackMessage ==
    <<"First", "fallback", "failed", "or", "no", "suitable", "first",
      "fallback", "available">>

SecondFallbackMessage ==
    <<"Second", "fallback", "failed", "or", "no", "suitable", "second",
      "fallback", "available">>

AllUnavailableMessage ==
    <<"All", "AI", "services", "are", "currently", "unavailable", ".",
      "Please", "try", "again", "later", ".">>

\* Mutant: the last catch block re-throws the error it caught.
RethrowLast(errs) == errs[Len(errs)]

\* The error the last catch block throws, whatever `errors` holds.
AllServicesUnavailable(errs) == Error(AllUnavailableMessage)

\* The adapter call `await` is waiting for.
Current == Len(calls)

\* Mutant: the orchestrator moves on whenever the call has not succeeded,
\* without waiting for it to settle.
AwaitThrewNoWait(i) == promise[i].state # "fulfilled"

\* `await` on call i threw: the call has settled and was rejected.
AwaitThrew(i) == promise[i].state = "rejected"

\* `await` on call i returned a value.
AwaitReturned(i) == promise[i].state = "fulfilled"

\* Mutant: the orchestrator fills in the result before returning it.
ReturnNormalised(i) ==
    [promise[i].value EXCEPT !.steps = Or(@, Arr(<<>>)),
                             !.warnings = Or(@, Arr(<<>>)),
                             !.severity = Or(@, DefaultSeverity)]

\* return await generateFirstAidGuidanceWith...(...)
ReturnAwaited(i) == promise[i].value

\* The arguments of generateFirstAidGuidanceUnified when the caller passes
\* none: images = [], textDescription = "".
DefaultRequest ==
    [images |-> <<>>, textDescription |-> Str(""), audioFilePath |-> Undefined,
     medicalHistory |-> Undefined]

\* What the orchestrator hands to an adapter: its three parameters. It has no
\* fourth parameter, so a fourth argument of its caller goes nowhere and the
\* adapter's medicalHistory is undefined.
AdapterArguments(r) ==
    [images |-> r.images, textDescription |-> r.textDescription,
     audioFilePath |-> r.audioFilePath, medicalHistory |-> Undefined]

\* Mutant: the adapter removes the audio file once it has read it.
FilesAfterUnlink(p, a, fs) ==
    IF a.audioFilePath = Undefined THEN fs ELSE fs \ {a.audioFilePath.s}

\* The file system after adapter p ran with arguments a: the adapters only
\* read (existsSync, readFileSync, createReadStream).
FilesAfterAdapter(p, a, fs) == fs

\* Calling an adapter: its promise is pending until the adapter settles it.
CallAdapter(p) ==
    /\ calls' = Append(calls, p)
    /\ args' = Append(args, AdapterArguments(request))
    /\ promise' = Append(promise, Pending)

\* Mutant: the innermost catch block never completes.
AllFailedHangs(errs) == UNCHANGED <<errors, outcome, pc, calls, args, promise>>

\* The innermost catch block: log, then throw the aggregate error.
AllFailed(errs) ==
    /\ errors' = errs
    /\ outcome' = Rejected(AllServicesUnavailable(errs))
    /\ pc' = "done"
    /\ UNCHANGED <<calls, args, promise>>

\* The second fallback's try block, entered with `errors` = errs.
SecondFallback(errs) ==
    LET p == SecondFallbackChoice(env)
    IN  IF p # None
            THEN /\ CallAdapter(p)
                 /\ errors' = errs
                 /\ pc' = "secondFallback"
                 /\ UNCHANGED outcome
            ELSE AllFailed(Append(errs, Error(SecondFallbackMessage)))

\* Mutant: after an authentication or rate-limit failure the orchestrator
\* gives up instead of trying another provider.
FirstFallbackUnlessUnavailable(errs) ==
    IF Occurs(<<"API", "service", "unavailable">>, errs[Len(errs)].message)
        THEN AllFailed(errs)
        ELSE LET p == FirstFallbackChoice(env)
             IN  IF p # None
                     THEN /\ CallAdapter(p)
                          /\ errors' = errs
                          /\ pc' = "firstFallback"
                          /\ UNCHANGED outcome
                     ELSE SecondFallback(Append(errs, Error(FirstFallbackMessage)))

\* The first fallback's try block, entered with `errors` = errs.
FirstFallback(errs) ==
    LET p == FirstFallbackChoice(env)
    IN  IF p # None
            THEN /\ CallAdapter(p)
                 /\ errors' = errs
                 /\ pc' = "firstFallback"
                 /\ UNCHANGED outcome
            ELSE SecondFallback(Append(errs, Error(FirstFallbackMessage)))

-----------------------------------------------------------------------------
(* The route handler: POST /first-aid/assess *)

Num(n) == [type |-> "number", n |-> n]

\* No HTTP request: the function is called directly.
NoRequest ==
    [text |-> Undefined, files |-> 0, audio |-> Undefined, patientId |-> Undefined]

\* The requests considered: a text or none, up to MaxImages uploaded images,
\* no audio, a recording as a data URL or another string, and the id of no
\* patient, of the patient the storage holds, or of a patient it does not
\* hold.
Requests ==
    [text : {Undefined, Str("cut")},
     files : 0..MaxImages,
     audio : {Undefined, Str("data:audio"), Str("blob")},
     patientId : {Undefined, Str("1"), Str("2")}]

\* No response has been sent.
NoResponse == [status |-> 0, body |-> Undefined]

\* new MemStorage() without the data its constructor creates.
EmptyStorage ==
    [patients |-> {}, medicalRecords |-> <<>>, firstAidGuidance |-> <<>>,
     firstAidGuidanceCurrentId |-> 1]

\* A medical record of patient 1.
SampleRecord ==
    [patientId |-> 1, allergies |-> Arr(<<Str("Penicillin")>>),
     currentMedications |-> Undefined, medicalConditions |-> Undefined,
     bloodType |-> Str("A+"), notes |-> Undefined]

\* The storage when a request arrives: patient 1, with or without a medical
\* record, and no guidance yet.
Storages ==
    {[EmptyStorage EXCEPT !.patients = {1}, !.medicalRecords = records] :
        records \in {<<>>, <<SampleRecord>>}}

\* req.body.patientId ? parseInt(req.body.patientId) : undefined
PatientIdOf(r) ==
    CASE r.patientId = Str("1") -> Num(1)
      [] r.patientId = Str("2") -> Num(2)
      [] OTHER -> Undefined

\* Mutant: every patient id is taken for the id of a stored patient.
PatientExistsAlways(st, patientId) == patientId # Undefined

\* storage.getPatient(patientId) found a patient.
PatientExists(st, patientId) == patientId # Undefined /\ patientId.n \in st.patients

\* path.join(os.tmpdir(), `first-aid-${uuidv4()}`)
tmpDir == "first-aid-uuid"

\* path.join(tmpDir, `image-${index}.jpg`) for each uploaded file
ImageFiles(r) == [i \in 1..r.files |-> "image-" \o ToString(i - 1) \o ".jpg"]

\* The path the recording is saved to, when req.body.audio is a data URL.
AudioFilePath(r) ==
    IF r.audio = Str("data:audio") THEN Str("audio-now.webm") ELSE Undefined

Range(f) == {f[i] : i \in DOMAIN f}

\* The directory and the files the handler has written before it validates
\* the request.
StagedFiles(r) ==
    {tmpDir} \cup Range(ImageFiles(r))
        \cup (IF AudioFilePath(r) = Undefined THEN {} ELSE {AudioFilePath(r).s})

\* The medical history built from the patient's latest medical record.
MedicalHistoryOf(st, patientId) ==
    LET medicalRecords ==
            SelectSeq(st.medicalRecords, LAMBDA record : record.patientId = patientId.n)
    IN  IF PatientExists(st, patientId) /\ Len(medicalRecords) > 0
            THEN LET latestRecord == medicalRecords[1]
                 IN  [type |-> "object",
                      allergies |-> Or(latestRecord.allergies, Arr(<<>>)),
                      medications |-> Or(latestRecord.currentMedications, Arr(<<>>)),
                      conditions |-> Or(latestRecord.medicalConditions, Arr(<<>>)),
                      bloodType |-> Or(latestRecord.bloodType, Undefined),
                      notes |-> Or(latestRecord.notes, Undefined)]
            ELSE Undefined

\* The four arguments the handler calls generateFirstAidGuidanceUnified with.
HandlerArguments(r, st) ==
    [images |-> ImageFiles(r),
     textDescription |-> Or(r.text, Str("")),
     audioFilePath |-> AudioFilePath(r),
     medicalHistory |-> MedicalHistoryOf(st, PatientIdOf(r))]

\* { ...insertGuidance, id, date, steps, warnings }
Spread(object, more) ==
    [f \in DOMAIN object \cup DOMAIN more |->
        IF f \in DOMAIN more THEN more[f] ELSE object[f]]

\* The record MemStorage.createFirstAidGuidance stores.
NewGuidance(st, insertGuidance) ==
    Spread(insertGuidance,
           [id |-> Num(st.firstAidGuidanceCurrentId),
            date |-> Str("now"),
            steps |-> Or(insertGuidance.steps, Arr(<<>>)),
            warnings |-> Or(insertGuidance.warnings, Arr(<<>>))])

\* MemStorage.createFirstAidGuidance(insertGuidance)
createFirstAidGuidance(st, insertGuidance) ==
    [st EXCEPT !.firstAidGuidanceCurrentId = @ + 1,
               !.firstAidGuidance = Append(@, NewGuidance(st, insertGuidance))]

\* What the handler passes to storage.createFirstAidGuidance.
InsertGuidance(patientId, aiResult) ==
    [patientId |-> patientId,
     assessment |-> aiResult.assessment,
     steps |-> aiResult.steps,
     warnings |-> aiResult.warnings]

\* The clean-up after the guidance is stored: every staged file that exists
\* is unlinked, then the directory is removed.
CleanedUp(fs, r) ==
    (fs \ (Range(r.images)
              \cup (IF r.audioFilePath = Undefined THEN {} ELSE {r.audioFilePath.s})))
        \ {tmpDir}

\* res.json({...}) on the success path.
GuidanceResponse(aiResult, saved, st) ==
    [status |-> 200,
     body |-> [assessment |-> aiResult.assessment,
               steps |-> aiResult.steps,
               warnings |-> aiResult.warnings,
               savedToRecords |-> saved,
               guidanceId |-> IF saved THEN Num(st.firstAidGuidanceCurrentId)
                              ELSE Undefined,
               severity |-> aiResult.severity]]

InvalidRequestResponse ==
    [status |-> 400,
     body |-> [message |-> <<"Invalid", "assessment", "request", "data">>]]

UnavailableResponse ==
    [status |-> 503,
     body |-> [message |-> <<"All", "AI", "services", "are", "temporarily",
                             "unavailable", ".", "The", "system", "tried",
                             "OpenAI", ",", "DeepSeek", ",", "and", "Gemini",
                             "APIs", ".", "Please", "try", "again", "later", ".">>,
               apiUnavailable |-> TRUE]]

\* error.message.includes('API service unavailable') ||
\* error.message.includes('All AI services are currently unavailable')
IsApiError(error) ==
    /\ error.message # <<>>
    /\ \/ Occurs(<<"API", "service", "unavailable">>, error.message)
       \/ Occurs(<<"All", "AI", "services", "are", "currently", "unavailable">>,
                 error.message)

\* The response of the handler's catch block for an error that is not a
\* ZodError.
ErrorResponse(error) ==
    IF IsApiError(error) THEN UnavailableResponse
    ELSE [status |-> 500,
          body |-> [message |-> <<"Error", "processing", "first", "aid",
                                  "request", ":">> \o MessageOf(error)]]

-----------------------------------------------------------------------------
(* Actions *)

\* No adapter call is followed step by step.
NoAdapter == [pc |-> "none"]

\* The recording hook is not mounted.
NoHook == [mounted |-> FALSE]

\* No extractor has run.
NotExtracted == [by |-> None, result |-> Undefined]

Init ==
    /\ env \in Environments
    /\ remote \in {r \in [Providers -> Responses] :
                      \A p \in Providers : r[p] \in ResponsesFor(env, p)}
    /\ pc = "idle"
    /\ calls = <<>>
    /\ promise = <<>>
    /\ errors = <<>>
    /\ outcome = Pending
    /\ content = <<>>
    /\ extracted = NotExtracted
    /\ request = DefaultRequest
    /\ args = <<>>
    /\ files = {}
    /\ req = NoRequest
    /\ hpc = "none"
    /\ storage = EmptyStorage
    /\ res = NoResponse
    /\ running = 1
    /\ frames = <<>>
    /\ alone = <<>>
    /\ adapter = NoAdapter
    /\ hook = NoHook
    /\ recorders = <<>>

\* The call of generateFirstAidGuidanceUnified, up to its first await or to
\* `return Promise.reject(...)`, which no catch block of the function sees.
Invoke ==
    /\ pc = "idle"
    /\ LET p == PrimaryChoice(env)
       IN  IF p # None
               THEN /\ CallAdapter(p)
                    /\ pc' = "primary"
                    /\ UNCHANGED <<errors, outcome>>
               ELSE /\ outcome' = Rejected(Error(NoServiceMessage))
                    /\ pc' = "done"
                    /\ UNCHANGED <<calls, args, promise, errors>>
    /\ UNCHANGED <<env, remote, files, outside>>

\* Adapter call i, pending, runs to completion against its provider, whose
\* answer carries `body`.
Settle(i, body) ==
    /\ promise[i].state = "pending"
    /\ promise' = [promise EXCEPT ![i] = Adapter(calls[i], remote[calls[i]], body)]
    /\ files' = FilesAfterAdapter(calls[i], args[i], files)
    /\ UNCHANGED <<env, remote, pc, calls, args, errors, outcome, outside>>

\* A pending adapter call runs to completion against its provider.
AdapterSettles ==
    \E i \in 1..Len(calls) :
        \E body \in ContentsFor(remote[calls[i]]) : Settle(i, body)

\* return await ...: the awaited adapter call succeeded (any of the three
\* try blocks).
Returns ==
    /\ pc \in {"primary", "firstFallback", "secondFallback"}
    /\ AwaitReturned(Current)
    /\ outcome' = Fulfilled(ReturnAwaited(Current))
    /\ pc' = "done"
    /\ UNCHANGED <<env, remote, calls, args, promise, errors, files, outside>>

\* catch (error): the primary attempt failed.
PrimaryFails ==
    /\ pc = "primary"
    /\ AwaitThrew(Current)
    /\ FirstFallback(Append(errors, promise[Current].reason))
    /\ UNCHANGED <<env, remote, files, outside>>

\* catch (firstFallbackError): the first fallback's adapter call failed.
FirstFallbackFails ==
    /\ pc = "firstFallback"
    /\ AwaitThrew(Current)
    /\ SecondFallback(Append(errors, promise[Current].reason))
    /\ UNCHANGED <<env, remote, files, outside>>

\* catch (secondFallbackError): the second fallback's adapter call failed.
SecondFallbackFails ==
    /\ pc = "secondFallback"
    /\ AwaitThrew(Current)
    /\ AllFailed(Append(errors, promise[Current].reason))
    /\ UNCHANGED <<env, remote, files, outside>>

Next ==
    \/ Invoke
    \/ AdapterSettles
    \/ Returns
    \/ PrimaryFails
    \/ FirstFallbackFails
    \/ SecondFallbackFails

Spec == Init /\ [][Next]_vars

\* The text extractors on their own: one of them runs on a provider's text.
ExtractInit ==
    /\ content \in ProviderTexts
    /\ extracted = NotExtracted
    /\ env = None
    /\ remote = None
    /\ pc = "idle"
    /\ calls = <<>>
    /\ promise = <<>>
    /\ errors = <<>>
    /\ outcome = Pending
    /\ request = DefaultRequest
    /\ args = <<>>
    /\ files = {}
    /\ req = NoRequest
    /\ hpc = "none"
    /\ storage = EmptyStorage
    /\ res = NoResponse
    /\ running = 1
    /\ frames = <<>>
    /\ alone = <<>>
    /\ adapter = NoAdapter
    /\ hook = NoHook
    /\ recorders = <<>>

Extract ==
    /\ extracted.by = None
    /\ \E p \in Providers :
           extracted' = [by |-> p, result |-> extractStructuredDataFromText(p, content)]
    /\ UNCHANGED <<invocation, content, files, route, schedule, adapter, client>>

ExtractNext == Extract

ExtractSpec == ExtractInit /\ [][ExtractNext]_vars

\* One request to POST /first-aid/assess. The environments, the answers
\* and the contents are a part of those of Spec.
RouteEnvironments ==
    {e \in Environments :
        /\ e.PREFERRED_AI_API = Undefined
        /\ \A p \in Providers : ApiKey(e, p) # Str("")
        /\ Configured(e, "DeepSeek") => Configured(e, "Gemini") /\ Configured(e, "OpenAI")}

RouteResponses == {HttpError(401), HttpError(500), JsonContent, TextContent}

RouteContentsFor(resp) ==
    IF resp.kind = "text" THEN {LabelledText}
    ELSE {b \in JsonBodies :
             /\ b.assessment = Str("Minor cut.")
             /\ b.steps # Arr(<<>>)
             /\ b.warnings = Arr(<<>>)
             /\ b.severity \in {Undefined, Obj(Str("minor"), Str("why"))}}

RouteInit ==
    /\ env \in RouteEnvironments
    /\ remote \in {r \in [Providers -> RouteResponses] :
                      \A p \in Providers : r[p] \in ResponsesFor(env, p)}
    /\ req \in Requests
    /\ storage \in Storages
    /\ hpc = "idle"
    /\ res = NoResponse
    /\ running = 1
    /\ frames = <<>>
    /\ alone = <<>>
    /\ adapter = NoAdapter
    /\ hook = NoHook
    /\ recorders = <<>>
    /\ files = {}
    /\ request = DefaultRequest
    /\ pc = "uncalled"
    /\ calls = <<>>
    /\ args = <<>>
    /\ promise = <<>>
    /\ errors = <<>>
    /\ outcome = Pending
    /\ content = <<>>
    /\ extracted = NotExtracted

\* The handler up to its call of generateFirstAidGuidanceUnified (lines
\* 179-254): it stages the uploaded files, validates the request and reads
\* the medical history. firstAidRequestSchema is not part of the sources:
\* whether it accepts the request is left open.
Stage ==
    /\ hpc = "idle"
    /\ files' = files \cup StagedFiles(req)
    /\ \E valid \in BOOLEAN :
           IF valid
               THEN /\ request' = HandlerArguments(req, storage)
                    /\ pc' = "idle"
                    /\ hpc' = "awaiting"
                    /\ UNCHANGED res
               ELSE /\ res' = InvalidRequestResponse
                    /\ hpc' = "responded"
                    /\ UNCHANGED <<request, pc>>
    /\ UNCHANGED <<env, remote, calls, args, promise, errors, outcome,
                   extraction, req, storage, schedule, adapter, client>>

\* A pending adapter call of the request runs to completion.
RouteAdapterSettles ==
    \E i \in 1..Len(calls) :
        \E body \in RouteContentsFor(remote[calls[i]]) : Settle(i, body)

\* The handler after generateFirstAidGuidanceUnified resolved (lines
\* 256-292): it stores the guidance for an existing patient, cleans up and
\* answers.
Respond ==
    /\ hpc = "awaiting"
    /\ pc = "done"
    /\ outcome.state = "fulfilled"
    /\ LET aiResult == outcome.value
           patientId == PatientIdOf(req)
           saved == PatientExists(storage, patientId)
       IN  /\ storage' =
                  IF saved
                      THEN createFirstAidGuidance(storage,
                                                  InsertGuidance(patientId, aiResult))
                      ELSE storage
           /\ res' = GuidanceResponse(aiResult, saved, storage)
    /\ files' = CleanedUp(files, request)
    /\ hpc' = "responded"
    /\ UNCHANGED <<invocation, extraction, req, schedule, adapter, client>>

\* The handler's catch block after generateFirstAidGuidanceUnified rejected
\* (lines 293-311).
RespondError ==
    /\ hpc = "awaiting"
    /\ pc = "done"
    /\ outcome.state = "rejected"
    /\ res' = ErrorResponse(outcome.reason)
    /\ hpc' = "responded"
    /\ UNCHANGED <<invocation, extraction, files, req, storage, schedule, adapter,
                   client>>

RouteNext ==
    \/ Stage
    \/ Invoke
    \/ RouteAdapterSettles
    \/ Returns
    \/ PrimaryFails
    \/ FirstFallbackFails
    \/ SecondFallbackFails
    \/ Respond
    \/ RespondError

RouteSpec == RouteInit /\ [][RouteNext]_vars

\* One invocation in which every step that can be taken is taken in the end:
\* every adapter call completes and the event loop resumes the orchestrator.
\* The environments are those of Spec; a provider answers with a refusal, a
\* network failure or one JSON body.
LiveResponses == {HttpError(401), NetworkError, JsonContent}

LiveInit == Init /\ \A p \in Providers : remote[p] \in LiveResponses

LiveAdapterSettles ==
    \E i \in 1..Len(calls) :
        Settle(i, [assessment |-> Str("Minor cut."), steps |-> Arr(<<>>),
                   warnings |-> Arr(<<>>), severity |-> Undefined])

LiveNext ==
    \/ Invoke
    \/ LiveAdapterSettles
    \/ Returns
    \/ PrimaryFails
    \/ FirstFallbackFails
    \/ SecondFallbackFails

LiveSpec == LiveInit /\ [][LiveNext]_vars /\ WF_vars(LiveNext)

\* Two invocations of generateFirstAidGuidanceUnified in one process. Each
\* first runs on its own, from call to settlement; then both run again from
\* the start, and at every step either the running invocation takes its next
\* step or the other one is resumed. The environment is the process's; each
\* invocation meets its own answers of the providers.
Invocations == {1, 2}

TwoEnvironments ==
    {e \in Environments :
        /\ e.PREFERRED_AI_API \in {Undefined, Str("openai")}
        /\ \A p \in Providers : ApiKey(e, p) # Str("")}

TwoResponses == {HttpError(401), JsonContent}

\* The JSON answers the providers give to invocation k.
BodyFor(k) ==
    [assessment |-> Str("Minor cut."),
     steps |-> Arr(<<>>),
     warnings |-> Undefined,
     severity |-> Obj(Str(IF k = 1 THEN "minor" ELSE "emergency"), Str("why"))]

\* The locals of an invocation that has not started, and its providers.
NewFrame(r) ==
    [remote |-> r, pc |-> "idle", calls |-> <<>>, args |-> <<>>,
     promise |-> <<>>, errors |-> <<>>, outcome |-> Pending]

\* A run starts: nothing is left of the run before it.
Start(r) ==
    /\ remote' = r
    /\ pc' = "idle"
    /\ calls' = <<>>
    /\ args' = <<>>
    /\ promise' = <<>>
    /\ errors' = <<>>
    /\ outcome' = Pending

\* The locals of the running invocation, and its providers.
Frame ==
    [remote |-> remote, pc |-> pc, calls |-> calls, args |-> args,
     promise |-> promise, errors |-> errors, outcome |-> outcome]

\* Mutant: the adapters' promises are kept in one place for all invocations.
ResumeSharingPromises(f) ==
    /\ remote' = f.remote
    /\ pc' = f.pc
    /\ calls' = f.calls
    /\ args' = f.args
    /\ errors' = f.errors
    /\ outcome' = f.outcome
    /\ UNCHANGED promise

\* The invocation suspended with locals f runs again: every local is its own.
Resume(f) ==
    /\ remote' = f.remote
    /\ pc' = f.pc
    /\ calls' = f.calls
    /\ args' = f.args
    /\ promise' = f.promise
    /\ errors' = f.errors
    /\ outcome' = f.outcome

TwoInit ==
    /\ env \in TwoEnvironments
    /\ frames \in {[k \in Invocations |-> NewFrame(r[k])] :
                      r \in [Invocations ->
                                {x \in [Providers -> TwoResponses] :
                                    \A p \in Providers : x[p] \in ResponsesFor(env, p)}]}
    /\ running = 1
    /\ alone = <<>>
    /\ adapter = NoAdapter
    /\ hook = NoHook
    /\ recorders = <<>>
    /\ remote = frames[1].remote
    /\ pc = "idle"
    /\ calls = <<>>
    /\ args = <<>>
    /\ promise = <<>>
    /\ errors = <<>>
    /\ outcome = Pending
    /\ request = DefaultRequest
    /\ content = <<>>
    /\ extracted = NotExtracted
    /\ files = {}
    /\ req = NoRequest
    /\ hpc = "none"
    /\ storage = EmptyStorage
    /\ res = NoResponse

\* Both invocations have run on their own.
Together == Len(alone) = 2

\* A pending adapter call of the running invocation runs to completion.
TwoAdapterSettles ==
    \E i \in 1..Len(calls) : Settle(i, BodyFor(running))

\* The running invocation has settled on its own: what it did is kept and
\* the next run starts.
FinishAlone ==
    /\ ~Together
    /\ pc = "done"
    /\ alone' = Append(alone, [calls |-> calls, outcome |-> outcome])
    /\ running' = IF running = 1 THEN 2 ELSE 1
    /\ Start(frames[running'].remote)
    /\ UNCHANGED <<env, request, extraction, files, route, frames, adapter, client>>

\* The event loop suspends the running invocation at its await and resumes
\* the other one.
ContextSwitch ==
    /\ Together
    /\ \E k \in Invocations \ {running} :
           /\ running' = k
           /\ frames' = [frames EXCEPT ![running] = Frame]
           /\ Resume(frames[k])
    /\ UNCHANGED <<env, request, extraction, files, route, alone, adapter, client>>

TwoNext ==
    \/ Invoke
    \/ TwoAdapterSettles
    \/ Returns
    \/ PrimaryFails
    \/ FirstFallbackFails
    \/ SecondFallbackFails
    \/ FinishAlone
    \/ ContextSwitch

TwoSpec == TwoInit /\ [][TwoNext]_vars

-----------------------------------------------------------------------------
(* Inside an adapter call: the prompt, the transcription, the request *)

\* Array.prototype.join(', ') on a list of strings; a text line is the
\* sequence of its pieces.
RECURSIVE Join(_)
Join(items) ==
    IF Len(items) = 0 THEN <<>>
    ELSE IF Len(items) = 1 THEN <<items[1].s>>
    ELSE <<items[1].s, ", ">> \o Join(Tail(items))

\* list?.length is truthy.
HasLength(list) == list # Undefined /\ Len(list.items) > 0

allergiesText(medicalHistory) ==
    IF HasLength(medicalHistory.allergies)
        THEN <<"Allergies: ">> \o Join(medicalHistory.allergies.items)
        ELSE <<"No known allergies">>

medicationsText(medicalHistory) ==
    IF HasLength(medicalHistory.medications)
        THEN <<"Current medications: ">> \o Join(medicalHistory.medications.items)
        ELSE <<"No current medications">>

conditionsText(medicalHistory) ==
    IF HasLength(medicalHistory.conditions)
        THEN <<"Medical conditions: ">> \o Join(medicalHistory.conditions.items)
        ELSE <<"No chronic medical conditions">>

bloodTypeText(medicalHistory) ==
    IF Truthy(medicalHistory.bloodType)
        THEN <<"Blood type: ", medicalHistory.bloodType.s>>
        ELSE <<>>

notesText(medicalHistory) ==
    IF Truthy(medicalHistory.notes)
        THEN <<"Additional medical notes: ", medicalHistory.notes.s>>
        ELSE <<>>

\* The lines of the template literal of the medical-history part.
MedicalHistoryText(medicalHistory) ==
    << <<"PATIENT MEDICAL HISTORY (IMPORTANT - Consider for treatment recommendations):">>,
       allergiesText(medicalHistory),
       medicationsText(medicalHistory),
       conditionsText(medicalHistory),
       bloodTypeText(medicalHistory),
       notesText(medicalHistory),
       <<>>,
       <<"Please tailor your first aid guidance taking into account these medical conditions, allergies, and medications. Warn about any potential complications based on the patient's medical history.">> >>

\* A part of the prompt: its lines, or an image.
TextPart(lines) == [type |-> "text", text |-> lines]
ImagePart(path) == [type |-> "image_url", text |-> << <<path>> >>]

SystemPart == TextPart(<< <<"You are a medical first aid assistant.">> >>)

\* The content array of the OpenAI adapter before the audio is looked at.
OpenAIContent(r) ==
    <<SystemPart, TextPart(<< <<"Situation description: ", r.textDescription.s>> >>)>>
        \o (IF r.medicalHistory # Undefined
                THEN <<TextPart(MedicalHistoryText(r.medicalHistory))>>
                ELSE <<>>)

\* combinedText of the DeepSeek adapter.
combinedText(r, audioTranscription) ==
    (IF Truthy(r.textDescription)
         THEN << <<"Text Description: ", r.textDescription.s>> >> ELSE <<>>)
        \o (IF Truthy(audioTranscription)
                THEN << <<"Voice Description: ", audioTranscription.s>> >> ELSE <<>>)

\* The messages of the DeepSeek adapter before the images are read.
DeepSeekMessages(r, audioTranscription) ==
    <<SystemPart>>
        \o (IF combinedText(r, audioTranscription) # <<>>
                THEN <<TextPart(combinedText(r, audioTranscription))>>
                ELSE <<>>)

\* The medical histories handed to an adapter.
Histories ==
    [type : {"object"},
     allergies : {Undefined, Arr(<<>>), Arr(<<Str("penicillin")>>),
                  Arr(<<Str("penicillin"), Str("latex")>>)},
     medications : {Arr(<<>>), Arr(<<Str("aspirin")>>)},
     conditions : {Undefined, Arr(<<Str("asthma")>>)},
     bloodType : {Undefined, Str("O+")},
     notes : {Undefined, Str(""), Str("fainted")}]

\* The arguments of the adapter call followed: the medical history is a
\* parameter of the OpenAI adapter only.
AdapterRequests(p) ==
    [images : {<<>>, <<"image-0.jpg">>},
     textDescription : {Str(""), Str("cut")},
     audioFilePath : {Undefined, Str("audio.webm")},
     medicalHistory : IF p = "OpenAI" THEN {Undefined} \cup Histories
                      ELSE {Undefined}]

AdapterResponses == {HttpError(429), EmptyContent, JsonContent}

AdapterBody ==
    [assessment |-> Str("Minor cut."), steps |-> Arr(<<>>),
     warnings |-> Arr(<<>>), severity |-> Undefined]

\* fs.readFileSync on a path that does not exist.
NoSuchFile == [message |-> <<"ENOENT">>, response |-> Undefined]

\* The images the adapter can read.
Readable(images, fs) == SelectSeq(images, LAMBDA path : path \in fs)

\* The adapter from the end of its audio step to its chat-completion
\* request: the OpenAI adapter adds the images that exist, the DeepSeek
\* adapter reads every image and throws into its catch block on one that is
\* missing; then the request is issued.
AfterAudio(a, r, fs) ==
    IF a.provider = "OpenAI"
        THEN [a EXCEPT !.content =
                           @ \o [i \in 1..Len(Readable(r.images, fs)) |->
                                    ImagePart(Readable(r.images, fs)[i])],
                       !.requests = @ + 1,
                       !.pc = "requesting"]
        ELSE IF Readable(r.images, fs) # r.images
            THEN [a EXCEPT !.content = DeepSeekMessages(r, a.audioTranscription),
                           !.result = DeepSeekCatch(NoSuchFile),
                           !.pc = "returned"]
            ELSE [a EXCEPT !.content =
                               DeepSeekMessages(r, a.audioTranscription)
                                   \o [i \in 1..Len(r.images) |-> ImagePart(r.images[i])],
                           !.requests = @ + 1,
                           !.pc = "requesting"]

\* The transcription did not produce a text.
TranscriptionFailed == [type |-> "failed"]

\* Mutant: a failed transcription throws into the adapter's catch block.
TranscribedOrThrown(a, heard, r, fs) ==
    IF heard = TranscriptionFailed
        THEN [a EXCEPT !.transcription = "failed",
                       !.result = IF a.provider = "OpenAI"
                                      THEN OpenAICatch(NoSuchFile)
                                      ELSE DeepSeekCatch(NoSuchFile),
                       !.pc = "returned"]
        ELSE AfterAudio([a EXCEPT !.transcription = "done",
                                  !.audioTranscription = heard], r, fs)

\* The adapter once `await transcribeAudioWith...` returned: the catch block
\* of the transcription turns a failure into "", and the OpenAI adapter adds
\* the voice part whatever the transcript.
Transcribed(a, heard, r, fs) ==
    LET audioTranscription == IF heard = TranscriptionFailed THEN Str("") ELSE heard
        voice == TextPart(<< <<"Additional voice information: ", audioTranscription.s>> >>)
    IN  AfterAudio([a EXCEPT !.transcription =
                                 IF heard = TranscriptionFailed THEN "failed" ELSE "done",
                             !.audioTranscription = audioTranscription,
                             !.content = IF a.provider = "OpenAI"
                                             THEN Append(@, voice) ELSE @],
                   r, fs)

\* What the transcription can come to: the DeepSeek adapter reads the file
\* first, so a missing file fails it; a request for a transcription gives a
\* text or fails.
Heard(p, r, fs) ==
    IF p = "DeepSeek" /\ r.audioFilePath.s \notin fs
        THEN {TranscriptionFailed}
        ELSE {Str("it hurts"), TranscriptionFailed}

\* The adapter asks for a transcription: the OpenAI adapter when the path is
\* given and the file exists, the DeepSeek adapter when the path is given.
WantsTranscription(p, r, fs) ==
    /\ Truthy(r.audioFilePath)
    /\ p = "OpenAI" => r.audioFilePath.s \in fs

AdapterInit ==
    /\ adapter \in
           [provider : {"OpenAI", "DeepSeek"}, pc : {"start"}, content : {<<>>},
            audioTranscription : {Str("")}, transcription : {"none"},
            requests : {0}, result : {Pending}]
    /\ request \in AdapterRequests(adapter.provider)
    /\ files \in SUBSET {"audio.webm", "image-0.jpg"}
    /\ env = [GEMINI_API_KEY |-> Str("key"), DEEPSEEK_API_KEY |-> Str("key"),
              OPENAI_API_KEY |-> Str("key"), PREFERRED_AI_API |-> Undefined]
    /\ remote \in {[p \in Providers |-> resp] : resp \in AdapterResponses}
    /\ pc = "uncalled"
    /\ calls = <<>>
    /\ args = <<>>
    /\ promise = <<>>
    /\ errors = <<>>
    /\ outcome = Pending
    /\ content = <<>>
    /\ extracted = NotExtracted
    /\ req = NoRequest
    /\ hpc = "none"
    /\ storage = EmptyStorage
    /\ res = NoResponse
    /\ running = 1
    /\ frames = <<>>
    /\ alone = <<>>
    /\ hook = NoHook
    /\ recorders = <<>>

\* The adapter runs from its call to its first await.
AdapterCalled ==
    /\ adapter.pc = "start"
    /\ LET a == [adapter EXCEPT !.content =
                     IF adapter.provider = "OpenAI" THEN OpenAIContent(request)
                     ELSE <<>>]
       IN  adapter' =
               IF WantsTranscription(adapter.provider, request, files)
                   THEN [a EXCEPT !.transcription = "pending", !.pc = "transcribing"]
                   ELSE AfterAudio(a, request, files)
    /\ UNCHANGED <<invocation, extraction, files, route, schedule, client>>

\* await transcribeAudioWith...(audioFilePath) returns.
TranscriptionSettles ==
    /\ adapter.pc = "transcribing"
    /\ \E heard \in Heard(adapter.provider, request, files) :
           adapter' = Transcribed(adapter, heard, request, files)
    /\ UNCHANGED <<invocation, extraction, files, route, schedule, client>>

\* The chat-completion request settles and the adapter returns or throws.
ChatSettles ==
    /\ adapter.pc = "requesting"
    /\ adapter' = [adapter EXCEPT
                      !.result = Adapter(adapter.provider,
                                         remote[adapter.provider], AdapterBody),
                      !.pc = "returned"]
    /\ UNCHANGED <<invocation, extraction, files, route, schedule, client>>

AdapterNext == AdapterCalled \/ TranscriptionSettles \/ ChatSettles

AdapterSpec == AdapterInit /\ [][AdapterNext]_vars

-----------------------------------------------------------------------------
(* The browser: useAudioRecording and the submit of the input section *)

Null == [type |-> "null"]

\* new Blob(chunks, { type: 'audio/webm' }) of the k-th recorder.
Blob(k) == [type |-> "blob", of |-> k]

\* URL.createObjectURL(blob)
createObjectURL(blob) == Str("blob:" \o ToString(blob.of))

\* No submit has been made.
NotSubmitted == [type |-> "undefined"]

\* new MediaRecorder(stream) after recorder.start(): `stop` tells whether
\* its stop event is not due, queued or handled, `by` which function of the
\* hook called stop().
NewRecorder == [state |-> "recording", stop |-> "none", by |-> "none"]

\* mediaRecorder.stop(): the recorder becomes inactive and the task that
\* fires its dataavailable and stop events is queued.
Stopped(recs, k, by) ==
    [recs EXCEPT ![k] = [state |-> "inactive", stop |-> "queued", by |-> by]]

\* The tasks queued by stop() run before the task of a later click.
NoEventQueued == \A k \in 1..Len(recorders) : recorders[k].stop # "queued"

RecorderInit ==
    /\ hook \in [mounted : {TRUE}, isRecording : {FALSE}, audioURL : {Null},
                 audioBlob : {Null}, mediaRecorder : {Null}, error : {Null},
                 description : {Str(""), Str("cut")}, formData : {NotSubmitted}]
    /\ recorders = <<>>
    /\ adapter = NoAdapter
    /\ env = [GEMINI_API_KEY |-> Str("key"), DEEPSEEK_API_KEY |-> Str("key"),
              OPENAI_API_KEY |-> Str("key"), PREFERRED_AI_API |-> Undefined]
    /\ remote = [p \in Providers |-> JsonContent]
    /\ request = DefaultRequest
    /\ files = {}
    /\ pc = "uncalled"
    /\ calls = <<>>
    /\ args = <<>>
    /\ promise = <<>>
    /\ errors = <<>>
    /\ outcome = Pending
    /\ content = <<>>
    /\ extracted = NotExtracted
    /\ req = NoRequest
    /\ hpc = "none"
    /\ storage = EmptyStorage
    /\ res = NoResponse
    /\ running = 1
    /\ frames = <<>>
    /\ alone = <<>>

\* startRecording, from the button shown while !isRecording && !audioURL:
\* the microphone is granted or refused.
startRecording ==
    /\ ~hook.isRecording
    /\ hook.audioURL = Null
    /\ NoEventQueued
    /\ Len(recorders) < MaxRecordings
    /\ \E granted \in BOOLEAN :
           IF granted
               THEN /\ recorders' = Append(recorders, NewRecorder)
                    /\ hook' = [hook EXCEPT !.error = Null,
                                            !.mediaRecorder = Num(Len(recorders) + 1),
                                            !.isRecording = TRUE]
               ELSE /\ hook' = [hook EXCEPT
                                   !.error = Str("Could not access microphone. Please check your device permissions."),
                                   !.isRecording = FALSE]
                    /\ UNCHANGED recorders
    /\ UNCHANGED <<invocation, extraction, files, route, schedule, adapter>>

stopRecording ==
    /\ hook.mediaRecorder # Null
    /\ hook.isRecording
    /\ recorders' = Stopped(recorders, hook.mediaRecorder.n, "stopRecording")
    /\ hook' = [hook EXCEPT !.isRecording = FALSE]
    /\ UNCHANGED <<invocation, extraction, files, route, schedule, adapter>>

cancelRecording ==
    /\ hook.mediaRecorder # Null
    /\ hook.isRecording
    /\ recorders' = Stopped(recorders, hook.mediaRecorder.n, "cancelRecording")
    /\ hook' = [hook EXCEPT !.audioURL = Null,
                            !.audioBlob = Null,
                            !.isRecording = FALSE]
    /\ UNCHANGED <<invocation, extraction, files, route, schedule, adapter>>

\* recorder.onstop of the k-th recorder: the handler startRecording
\* installed builds the blob and sets audioURL and audioBlob.
onstop(h, k) ==
    [h EXCEPT !.audioURL = createObjectURL(Blob(k)), !.audioBlob = Blob(k)]

\* The queued stop event of a recorder is handled.
StopEvent ==
    /\ \E k \in 1..Len(recorders) :
           /\ recorders[k].stop = "queued"
           /\ hook' = onstop(hook, k)
           /\ recorders' = [recorders EXCEPT ![k].stop = "handled"]
    /\ UNCHANGED <<invocation, extraction, files, route, schedule, adapter>>

\* clearAudio, from the button shown while audioURL && !isRecording and
\* from onSuccess of a submit.
clearAudio ==
    /\ \/ hook.audioURL # Null /\ ~hook.isRecording
       \/ hook.formData # NotSubmitted
    /\ hook' = [hook EXCEPT !.audioURL = Null, !.audioBlob = Null]
    /\ UNCHANGED <<invocation, extraction, files, route, schedule, adapter,
                   recorders>>

\* handleSubmit of the input section, without images: it returns early when
\* there is no description and no recording, else the form data carries the
\* description and the recording there is.
handleSubmit ==
    /\ Truthy(hook.description) \/ hook.audioBlob # Null
    /\ hook' = [hook EXCEPT !.formData =
                   [text |-> IF Truthy(hook.description) THEN hook.description
                             ELSE Undefined,
                    audio |-> hook.audioBlob]]
    /\ UNCHANGED <<invocation, extraction, files, route, schedule, adapter,
                   recorders>>

RecorderNext ==
    \/ startRecording
    \/ stopRecording
    \/ cancelRecording
    \/ StopEvent
    \/ clearAudio
    \/ handleSubmit

RecorderSpec == RecorderInit /\ [][RecorderNext]_vars

-----------------------------------------------------------------------------
(* Vocabulary of the properties *)

Done == pc = "done"
Resolved == Done /\ outcome.state = "fulfilled"
RejectedOutcome == Done /\ outcome.state = "rejected"

\* The provider answers with usable content whenever it is called.
Succeeds(p) == remote[p].kind \in {"json", "text"}

AnyConfigured == \E p \in Providers : Configured(env, p)

PreferenceUnset == env.PREFERRED_AI_API = Undefined

\* The provider PREFERRED_AI_API names, or None.
Named ==
    CASE preferredApi(env) = Str("gemini") -> "Gemini"
      [] preferredApi(env) = Str("deepseek") -> "DeepSeek"
      [] preferredApi(env) = Str("openai") -> "OpenAI"
      [] OTHER -> None

\* The configured providers in the default order Gemini, DeepSeek, OpenAI.
ConfiguredInOrder ==
    SelectSeq(<<"Gemini", "DeepSeek", "OpenAI">>, LAMBDA p : Configured(env, p))

InFlight == {i \in 1..Len(calls) : promise[i].state = "pending"}

IsArray(v) == v.type = "array"

-----------------------------------------------------------------------------
(* C1..C10: the orchestrator's contract *)

\* C1: whenever a provider whose credential is configured succeeds when
\* called, the invocation does not end rejected.
C1_ResolvesWhenAConfiguredProviderSucceeds ==
    RejectedOutcome => ~(\E p \in Providers : Configured(env, p) /\ Succeeds(p))

\* C2: within one invocation no provider adapter is called more than once.
C2_NoProviderCalledTwice ==
    \A i, j \in 1..Len(calls) : i # j => calls[i] # calls[j]

\* C3: an adapter is called only if its provider's API key is configured.
C3_OnlyConfiguredProvidersCalled ==
    \A i \in 1..Len(calls) : Configured(env, calls[i])

\* C4: with no credential configured the invocation calls no adapter and
\* rejects with the "No AI service is available" error.
C4_NoCredentialsNoCall ==
    ~AnyConfigured =>
        /\ calls = <<>>
        /\ Done => outcome = Rejected(Error(NoServiceMessage))

\* C5: with PREFERRED_AI_API unset the providers attempted are the
\* configured ones in the order Gemini, DeepSeek, OpenAI: the calls made so
\* far are a prefix of that order, and all of it once every attempt failed.
C5_DefaultOrder ==
    PreferenceUnset =>
        /\ Len(calls) <= Len(ConfiguredInOrder)
        /\ calls = SubSeq(ConfiguredInOrder, 1, Len(calls))
        /\ RejectedOutcome => calls = ConfiguredInOrder

\* C6: when PREFERRED_AI_API names a provider whose credential is
\* configured, that provider is the first adapter attempted.
C6_PreferredIsFirst ==
    (Named # None /\ Configured(env, Named) /\ calls # <<>>) => calls[1] = Named

\* C7: if at least one provider is configured and every attempt fails, the
\* invocation rejects with the one fixed aggregate message, which contains
\* "unavailable" and in which no adapter's error message appears.
C7_AggregateError ==
    (RejectedOutcome /\ AnyConfigured) =>
        /\ outcome.reason.message = AllUnavailableMessage
        /\ Contains(outcome.reason.message, "unavailable")
        /\ \A i \in 1..Len(calls) :
               /\ promise[i].state = "rejected"
               /\ ~Occurs(promise[i].reason.message, outcome.reason.message)

\* A state in which C7's case has happened: a configured provider was
\* called, every attempt failed, and the invocation has rejected.
C7_Witness ==
    /\ RejectedOutcome
    /\ AnyConfigured
    /\ Len(calls) = 3
    /\ \E i \in 1..Len(calls) :
           promise[i].reason.message = ServiceUnavailableMessage(calls[i])

\* C8: when the invocation resolves, its value is the value of the one
\* adapter call that succeeded, and that call is the last one made.
C8_ReturnsTheAdaptersValue ==
    /\ \A i \in 1..Len(calls) : promise[i].state = "fulfilled" => i = Len(calls)
    /\ Resolved =>
           /\ calls # <<>>
           /\ promise[Len(calls)].state = "fulfilled"
           /\ outcome.value = promise[Len(calls)].value

\* A state in which C8's case has happened: the primary attempt failed, a
\* fallback succeeded with an answer that lacks fields, and the invocation
\* has resolved.
C8_Witness ==
    /\ Resolved
    /\ Len(calls) >= 2
    /\ promise[1].state = "rejected"
    /\ outcome.value.steps = Undefined

\* C9: at most one adapter call is in flight at any moment, and every call
\* but the latest has completed with a failure.
C9_OneCallInFlight ==
    /\ Cardinality(InFlight) <= 1
    /\ \A i \in 1..(Len(calls) - 1) : promise[i].state = "rejected"

\* A state in which C9's case has happened: a fallback call is in flight
\* after the previous attempt failed.
C9_Witness ==
    /\ pc = "secondFallback"
    /\ Len(calls) = 3
    /\ InFlight = {3}
    /\ promise[1].state = "rejected"
    /\ promise[2].state = "rejected"

\* C10: a result resolved from a well-formed JSON answer has steps and
\* warnings as arrays and, if it has a severity, one of the three levels.
C10_ResultShape ==
    Resolved =>
        /\ IsArray(outcome.value.steps)
        /\ IsArray(outcome.value.warnings)
        /\ outcome.value.severity # Undefined =>
               outcome.value.severity.level \in {Str(l) : l \in Levels}

-----------------------------------------------------------------------------
(* C11..C14: the adapters' fallbacks and failures *)

SectionLabels ==
    {"assessment", "situation", "condition", "steps", "warnings", "severity",
     "level", "description"}

\* The text holds none of the labels an extractor looks for.
NoLabels(t) == \A i \in 1..Len(t) : ToLowerCase(t[i]) \notin SectionLabels

NoSeverityLabel(t) ==
    \A i \in 1..Len(t) : ToLowerCase(t[i]) \notin {"severity", "level"}

\* The text holds none of the words a severity level is recognised by.
NoLevelWord(t) ==
    \A i \in 1..Len(t) :
        ToLowerCase(t[i]) \notin
            {"minor", "requires_attention", "attention", "emergency"}

HasExtracted == extracted.by # None

IsString(v) == v.type \in {"string", "text"}

\* C11: given a text that holds no section label, an extractor returns a
\* non-empty assessment, no steps, and at least one warning.
C11_NoLabelsGenericResult ==
    (HasExtracted /\ NoLabels(content)) =>
        /\ IsString(extracted.result.assessment)
        /\ Truthy(extracted.result.assessment)
        /\ extracted.result.steps = Arr(<<>>)
        /\ IsArray(extracted.result.warnings)
        /\ extracted.result.warnings.items # <<>>

\* C12: the severity an extractor returns has one of the three levels, and
\* is requires_attention with a description when the text holds no severity
\* label or none of the recognised words.
C12_SeverityLevel ==
    HasExtracted =>
        LET severity == extracted.result.severity
        IN  /\ severity.type = "object"
            /\ severity.level \in {Str(l) : l \in Levels}
            /\ (NoSeverityLabel(content) \/ NoLevelWord(content)) =>
                   /\ severity.level = Str("requires_attention")
                   /\ IsString(severity.description)
                   /\ Truthy(severity.description)

\* The message names the provider's API as unavailable (what the route
\* handler looks for in an error).
ServiceUnavailable(message) == Occurs(<<"API", "service", "unavailable">>, message)

AuthOrRateLimit(resp) == resp.kind = "http_error" /\ resp.status \in {401, 429}

\* C13: an adapter call rejects with the "service unavailable" message
\* exactly when its provider answered 401 or 429.
C13_DedicatedUnavailableError ==
    \A i \in 1..Len(calls) :
        promise[i].state = "rejected" =>
            (ServiceUnavailable(promise[i].reason.message)
                <=> AuthOrRateLimit(remote[calls[i]]))

-----------------------------------------------------------------------------
(* C15..C20: the orchestrator inside POST /first-aid/assess *)

\* The handler has sent its response.
Answered == hpc = "responded"

\* The handler is suspended on its call of generateFirstAidGuidanceUnified.
Awaiting == hpc = "awaiting"

\* C15: once generateFirstAidGuidanceUnified has settled and the handler has
\* answered, the response is the guidance (200) or the service-unavailable
\* response (503 with apiUnavailable), and its message holds the text of no
\* error of the orchestrator or of an adapter.
C15_GuidanceOrUnavailable ==
    (Answered /\ pc = "done") =>
        /\ res.status \in {200, 503}
        /\ res.status = 200 => outcome.state = "fulfilled"
        /\ res.status = 503 => res.body.apiUnavailable
        /\ res.status # 200 =>
               \A e \in Range(errors) \cup {outcome.reason} :
                   ~Occurs(e.message, res.body.message)

\* C16: when the response is sent, the staged files and the temporary
\* directory are gone.
C16_TemporaryFilesDeleted == Answered => files = {}

\* C17: every adapter call receives the images, the text, the audio path and
\* the medical history the orchestrator was called with.
C17_AdaptersReceiveTheArguments ==
    \A i \in 1..Len(calls) : args[i] = request

\* C18: a stored guidance record carries the patient, the assessment, the
\* steps, the warnings, a date, and the severity of the result when the
\* result has one.
C18_StoredRecord ==
    \A k \in 1..Len(storage.firstAidGuidance) :
        LET guidance == storage.firstAidGuidance[k]
            aiResult == outcome.value
        IN  /\ guidance.patientId = PatientIdOf(req)
            /\ guidance.assessment = aiResult.assessment
            /\ guidance.steps = Or(aiResult.steps, Arr(<<>>))
            /\ guidance.warnings = Or(aiResult.warnings, Arr(<<>>))
            /\ "date" \in DOMAIN guidance
            /\ aiResult.severity # Undefined =>
                   /\ "severity" \in DOMAIN guidance
                   /\ guidance.severity = aiResult.severity

\* C20: from the call of generateFirstAidGuidanceUnified until the handler
\* resumes, every file staged for the call exists.
C20_InputFilesKept == Awaiting => StagedFiles(req) \subseteq files

C20_Witness ==
    /\ Awaiting
    /\ pc = "done"
    /\ Len(calls) = 3
    /\ promise[3].state = "fulfilled"
    /\ Len(request.images) = MaxImages
    /\ request.audioFilePath # Undefined
    /\ Range(request.images) \cup {request.audioFilePath.s} \subseteq files

\* The locals of invocation k.
FrameOf(k) == IF running = k THEN Frame ELSE frames[k]

IsPrefix(a, b) == Len(a) <= Len(b) /\ SubSeq(b, 1, Len(a)) = a

\* C19: while two invocations interleave, each has attempted a prefix of the
\* providers it attempted on its own, and once it has settled it has
\* attempted the same providers with the same outcome.
C19_AsWhenAlone ==
    Together =>
        \A k \in Invocations :
            /\ IsPrefix(FrameOf(k).calls, alone[k].calls)
            /\ FrameOf(k).pc = "done" =>
                   /\ FrameOf(k).calls = alone[k].calls
                   /\ FrameOf(k).outcome = alone[k].outcome

\* Invocation 1 settled after two attempts while invocation 2, started
\* before that, was suspended in its first fallback; the two ended
\* differently.
C19_Witness ==
    /\ Together
    /\ FrameOf(1).pc = "done"
    /\ Len(FrameOf(1).calls) = 2
    /\ FrameOf(1).outcome.state = "fulfilled"
    /\ FrameOf(2).pc = "firstFallback"
    /\ alone[2].outcome # alone[1].outcome

-----------------------------------------------------------------------------
(* C21..C29 *)

\* The invocation ended in the aggregate failure.
AggregateFailure ==
    RejectedOutcome /\ outcome.reason.message = AllUnavailableMessage

Plan(e) ==
    SelectSeq(<<PrimaryChoice(e), FirstFallbackChoice(e), SecondFallbackChoice(e)>>,
              LAMBDA p : p # None)

\* C24: whatever the failures are, the adapters attempted are the first ones
\* of the plan the environment fixes, and an invocation that rejects has
\* attempted all of them.
C24_NextAttemptIgnoresFailureKind ==
    /\ IsPrefix(calls, Plan(env))
    /\ RejectedOutcome => calls = Plan(env)

\* Three attempts failed in three ways, one of them with 401 or 429.
C24_Witness ==
    /\ RejectedOutcome
    /\ Len(calls) = 3
    /\ AuthOrRateLimit(remote[calls[1]])
    /\ remote[calls[2]].kind = "network"
    /\ remote[calls[3]].kind = "empty"

\* C25: the invocation never makes more than three adapter calls, and it
\* settles.
C25_SettlesWithinThreeCalls == [](Len(calls) <= 3) /\ <>Done

C25_Witness == Done /\ Len(calls) = 3

\* C22: from the three labelled lines, an extractor returns the assessment
\* "Minor cut.", the steps "Clean it." and "Bandage it.", and the warning
\* "Watch for infection.".
C22_ThreeLines ==
    (HasExtracted /\ content = ThreeLineText) =>
        /\ extracted.result.assessment = Text(<<"Minor", " ", "cut.">>)
        /\ extracted.result.steps =
               Arr(<<Text(<<"Clean", " ", "it.">>), Text(<<"Bandage", " ", "it.">>)>>)
        /\ extracted.result.warnings =
               Arr(<<Text(<<"Watch", " ", "for", " ", "infection.">>)>>)

\* The text after the severity label, as the extractor that ran reads it.
SeverityText ==
    LowerAll(IF extracted.by = "OpenAI"
                 THEN OrMatch(LineAfter(content, "severity"), LineAfter(content, "level"))
                 ELSE AfterSeverity(content, "level"))

\* The phrases the extractor that ran takes for requires_attention.
AttentionPhrases ==
    {<<"requires_attention">>, <<"requires", " ", "attention">>}
        \cup (IF extracted.by = "OpenAI" THEN {<<"medical", " ", "attention">>}
              ELSE {<<"attention">>})

SaysMinor == Includes(SeverityText, <<"minor">>)
SaysAttention == \E phrase \in AttentionPhrases : Includes(SeverityText, phrase)
SaysEmergency == Includes(SeverityText, <<"emergency">>)

\* C28: the OpenAI and DeepSeek extractors take the level of the first test
\* that matches, in the order minor, attention, emergency.
C28_SeverityOrder ==
    (extracted.by \in {"OpenAI", "DeepSeek"} /\ SeverityText # <<>>) =>
        LET level == extracted.result.severity.level
        IN  /\ SaysMinor => level = Str("minor")
            /\ (~SaysMinor /\ SaysAttention) => level = Str("requires_attention")
            /\ (~SaysMinor /\ ~SaysAttention /\ SaysEmergency) =>
                   level = Str("emergency")

C28_Witness ==
    /\ extracted.by = "OpenAI"
    /\ SaysMinor
    /\ SaysEmergency
    /\ SaysAttention
    /\ extracted.result.severity.level = Str("minor")

\* C27: POST /first-aid/assess stores a guidance record exactly when the
\* orchestrator resolved, the request carried a patientId and the storage
\* holds that patient; savedToRecords of the answer is true exactly when a
\* record was stored; when the orchestrator rejects, no record is stored.
GuidanceStored == Len(storage.firstAidGuidance) > Len(EmptyStorage.firstAidGuidance)

C27_RecordIffResolvedForKnownPatient ==
    /\ hpc # "responded" => ~GuidanceStored
    /\ hpc = "responded" =>
           /\ GuidanceStored <=>
                  /\ Resolved
                  /\ req.patientId # Undefined
                  /\ PatientIdOf(req).n \in storage.patients
           /\ res.status = 200 => res.body.savedToRecords = GuidanceStored
           /\ RejectedOutcome => ~GuidanceStored

C27_Witness ==
    /\ hpc = "responded"
    /\ res.status = 200
    /\ res.body.savedToRecords
    /\ Len(storage.firstAidGuidance) = 1
    /\ storage.firstAidGuidance[1].patientId = Num(1)

\* C21: the medical-history text of the OpenAI adapter holds every listed
\* allergy, medication and condition literally, and a line that is not
\* empty for each of the five fields, an explicit phrase standing for a
\* field that is empty or absent.
HistoryLines == adapter.content[3].text

Listed(list) == IF HasLength(list) THEN {list.items[i].s : i \in 1..Len(list.items)} ELSE {}

C21_HistoryRendered ==
    (adapter.pc \notin {"none", "start"} /\ adapter.provider = "OpenAI"
        /\ request.medicalHistory # Undefined) =>
        /\ \A item \in Listed(request.medicalHistory.allergies) :
               Contains(HistoryLines[2], item)
        /\ \A item \in Listed(request.medicalHistory.medications) :
               Contains(HistoryLines[3], item)
        /\ \A item \in Listed(request.medicalHistory.conditions) :
               Contains(HistoryLines[4], item)
        /\ \A k \in 2..6 : HistoryLines[k] # <<>>

\* C26: in the OpenAI and DeepSeek adapters a failed transcription leaves
\* the transcript empty and the adapter running: it issues its one
\* chat-completion request unless reading an image throws, and it rejects
\* only when reading an image or that request fails.
ImagesReadable == Readable(request.images, files) = request.images

C26_TranscriptionFailureTolerated ==
    /\ adapter.pc # "none" => adapter.requests <= 1
    /\ (adapter.pc # "none" /\ adapter.transcription = "failed") =>
           /\ adapter.audioTranscription = Str("")
           /\ adapter.pc \in {"requesting", "returned"}
           /\ adapter.requests = 1 \/ ~ImagesReadable
           /\ adapter.result.state = "rejected" =>
                  ~ImagesReadable \/ remote[adapter.provider].kind # "json"

C26_Witness ==
    /\ adapter.pc = "returned"
    /\ adapter.transcription = "failed"
    /\ adapter.provider = "DeepSeek"
    /\ request.audioFilePath.s \notin files
    /\ adapter.requests = 1
    /\ adapter.result.state = "fulfilled"

\* C29: once the stop event of a recorder that cancelRecording stopped is
\* handled, audioBlob and audioURL are null and isRecording is false; no
\* later submit carries the cancelled recording.
CancelledStopHandled ==
    \E k \in 1..Len(recorders) :
        /\ recorders[k].by = "cancelRecording"
        /\ recorders[k].stop = "queued"
        /\ recorders'[k].stop = "handled"

C29_CancelledRecordingDiscarded ==
    [][/\ CancelledStopHandled =>
              /\ hook'.audioBlob = Null
              /\ hook'.audioURL = Null
              /\ ~hook'.isRecording
       /\ \A k \in 1..Len(recorders) :
              (recorders[k].by = "cancelRecording" /\ hook'.formData # NotSubmitted)
                  => hook'.formData.audio # Blob(k)]_vars

====
